---- MODULE Spec2Model ----
(***************************************************************************)
(* A model of bvh/utilities.hpp: the bit reinterpretation as<To>(from),    *)
(* product_sign, atomic_max, shuffle_primitives,                           *)
(* compute_bounding_boxes_and_centers and RoundedUpLog2.                   *)
(*                                                                         *)
(* The operations of the header are independent of each other, so each has *)
(* its own group of variables and its own specification; a specification   *)
(* holds the variables of the other operations at their idle values.       *)
(***************************************************************************)
EXTENDS Integers, Sequences, FiniteSets, TLC

VARIABLES
    \* atomic_max: one shared std::atomic<Scalar> and NThreads callers
    x,            \* the shared scalar
    y,            \* y[t]: the candidate caller t passes
    z,            \* z[t]: caller t's local `z` (the expected value of the CAS)
    pc,           \* pc[t]: "idle", "test", "cas", "done"
    initial,      \* history: the value x was constructed with
    held,         \* history: the set of values x has held so far
    before,       \* history: before[t] = held at the moment t's call began
    nswaps,       \* history: the number of CAS that succeeded so far
    swapsAtLoad,  \* history: swapsAtLoad[t] = nswaps when t last loaded z from x
    events,       \* history: which kinds of CAS failure have happened
    \* shuffle_primitives
    primitives,      \* the caller's array, a function over 0..count-1
    indices,         \* the caller's index array
    primitive_count, \* the caller's count
    primitives_copy, \* the staging array (line 58)
    si,              \* the loop variable i of line 60
    spc,             \* "call", "moveout", "loop", "done"
    original,        \* history: the caller's array when the call began
    \* compute_bounding_boxes_and_centers
    eprims,       \* the caller's primitives, a function over 0..ecount-1
    ecount,       \* primitive_count
    bboxes,       \* the bboxes array (line 67)
    centers,      \* the centers array (line 68)
    todo,         \* iterations of the parallel loop no worker has started
    wpc,          \* wpc[w]: "idle", "bbox", "center"
    wi,           \* wi[w]: the iteration worker w is running
    epc,          \* "call", "loop", "returned"
    boxWrites,    \* history: boxWrites[i] = number of writes to bboxes[i]
    centerWrites, \* history: centerWrites[i] = number of writes to centers[i]
    eprims0,      \* history: the caller's primitives when the call began
    accesses,     \* history: every array access made by an iteration of the loop
    owner,        \* history: owner[i] = the worker that ran iteration i (0: none yet)
    \* RoundedUpLog2<P, I, Found>
    P, I, Found,  \* the template arguments of the current instantiation
    value,        \* ::value once the recursion has reached Found = true
    \* as<To>(from)
    asTo,         \* the template argument To
    asFrom,       \* the argument from
    asStorage,    \* the bits of the local `to`
    asOverrun,    \* whether memcpy wrote past the end of `to`
    asResult,     \* the value returned
    aspc,         \* "call", "copied", "returned"
    \* product_sign
    psX, psY,     \* the arguments
    psResult,     \* the value returned
    pspc          \* "call", "returned"

atomVars == <<x, y, z, pc, initial, held, before, nswaps, swapsAtLoad, events>>
shufVars == <<primitives, indices, primitive_count, primitives_copy, si, spc, original>>
extVars  == <<eprims, ecount, bboxes, centers, todo, wpc, wi, epc,
              boxWrites, centerWrites, eprims0, accesses, owner>>
logVars  == <<P, I, Found, value>>
asVars   == <<asTo, asFrom, asStorage, asOverrun, asResult, aspc>>
psVars   == <<psX, psY, psResult, pspc>>
vars     == <<atomVars, shufVars, extVars, logVars, asVars, psVars>>

Max(S) == CHOOSE m \in S : \A v \in S : m >= v

(***************************************************************************)
(* Idle values: what a specification holds the other operations at.        *)
(***************************************************************************)
AtomIdle ==
    /\ x = 0 /\ y = <<>> /\ z = <<>> /\ pc = <<>> /\ initial = 0
    /\ held = {} /\ before = <<>> /\ nswaps = 0 /\ swapsAtLoad = <<>> /\ events = {}

ShufIdle ==
    /\ primitives = <<>> /\ indices = <<>> /\ primitive_count = 0
    /\ primitives_copy = <<>> /\ si = 0 /\ spc = "idle" /\ original = <<>>

ExtIdle ==
    /\ eprims = <<>> /\ ecount = 0 /\ bboxes = <<>> /\ centers = <<>>
    /\ todo = {} /\ wpc = <<>> /\ wi = <<>> /\ epc = "idle"
    /\ boxWrites = <<>> /\ centerWrites = <<>> /\ eprims0 = <<>>
    /\ accesses = {} /\ owner = <<>>

LogIdle == P = 0 /\ I = 0 /\ Found = FALSE /\ value = -1

AsIdle ==
    /\ asTo = "none" /\ asFrom = <<>> /\ asStorage = <<>> /\ asOverrun = FALSE
    /\ asResult = <<>> /\ aspc = "idle"

PsIdle == psX = <<>> /\ psY = <<>> /\ psResult = <<>> /\ pspc = "idle"

(***************************************************************************)
(* atomic_max (lines 49-53)                                                *)
(*                                                                         *)
(*   auto z = x.load();                                                    *)
(*   while (z < y && !x.compare_exchange_weak(z, y)) ;                     *)
(*                                                                         *)
(* load and compare_exchange_weak are sequentially consistent (the default *)
(* memory order), so every execution is an interleaving of the callers'    *)
(* atomic steps.  The test z < y reads locals only.                        *)
(***************************************************************************)
NThreads == 3
MaxValue == 2

Threads == 1..NThreads
Values  == 0..MaxValue

AtomInit ==
    /\ x \in Values
    /\ y \in [Threads -> Values]
    /\ z = [t \in Threads |-> 0]
    /\ pc = [t \in Threads |-> "idle"]
    /\ initial = x
    /\ held = {x}
    /\ before = [t \in Threads |-> {}]
    /\ nswaps = 0
    /\ swapsAtLoad = [t \in Threads |-> 0]
    /\ events = {}

\* line 51: auto z = x.load();
Load(t) ==
    /\ pc[t] = "idle"
    /\ z' = [z EXCEPT ![t] = x]
    /\ pc' = [pc EXCEPT ![t] = "test"]
    /\ before' = [before EXCEPT ![t] = held]
    /\ swapsAtLoad' = [swapsAtLoad EXCEPT ![t] = nswaps]
    /\ UNCHANGED <<initial, x, y, held, nswaps, events>>

\* mutant: the comparison of line 52 inverted (z > y)
TestInverted(t) ==
    /\ pc[t] = "test"
    /\ pc' = [pc EXCEPT ![t] = IF z[t] > y[t] THEN "cas" ELSE "done"]
    /\ UNCHANGED <<initial, x, y, z, held, before, nswaps, swapsAtLoad, events>>

\* line 52, left operand of &&: z < y; the loop (and the call) ends when false
Test(t) ==
    /\ pc[t] = "test"
    /\ pc' = [pc EXCEPT ![t] = IF z[t] < y[t] THEN "cas" ELSE "done"]
    /\ UNCHANGED <<initial, x, y, z, held, before, nswaps, swapsAtLoad, events>>

\* mutant: a plain store of y in place of the compare-and-swap
CasBlindStore(t) ==
    /\ pc[t] = "cas"
    /\ x' = y[t]
    /\ held' = held \cup {y[t]}
    /\ nswaps' = nswaps + 1
    /\ pc' = [pc EXCEPT ![t] = "done"]
    /\ UNCHANGED <<initial, y, z, before, swapsAtLoad, events>>

\* line 52: compare_exchange_weak(z, y) finds x = z and stores y
CasSuccess(t) ==
    /\ pc[t] = "cas"
    /\ x = z[t]
    /\ x' = y[t]
    /\ held' = held \cup {y[t]}
    /\ nswaps' = nswaps + 1
    /\ pc' = [pc EXCEPT ![t] = "done"]
    /\ UNCHANGED <<initial, y, z, before, swapsAtLoad, events>>

\* mutant: a failed CAS ends the call instead of retrying
CasFailGiveUp(t) ==
    /\ pc[t] = "cas"
    /\ x # z[t]
    /\ z' = [z EXCEPT ![t] = x]
    /\ swapsAtLoad' = [swapsAtLoad EXCEPT ![t] = nswaps]
    /\ events' = events \cup {"contention"}
    /\ pc' = [pc EXCEPT ![t] = "done"]
    /\ UNCHANGED <<initial, x, y, held, before, nswaps>>

\* mutant: a failed CAS retries with the stale expected value (z not reloaded)
CasFailStale(t) ==
    /\ pc[t] = "cas"
    /\ x # z[t]
    /\ events' = events \cup {"contention"}
    /\ pc' = [pc EXCEPT ![t] = "test"]
    /\ UNCHANGED <<initial, x, y, z, held, before, nswaps, swapsAtLoad>>

\* line 52: compare_exchange_weak(z, y) finds x # z, loads x into z and fails
CasFail(t) ==
    /\ pc[t] = "cas"
    /\ x # z[t]
    /\ z' = [z EXCEPT ![t] = x]
    /\ swapsAtLoad' = [swapsAtLoad EXCEPT ![t] = nswaps]
    /\ events' = events \cup {"contention"}
    /\ pc' = [pc EXCEPT ![t] = "test"]
    /\ UNCHANGED <<initial, x, y, held, before, nswaps>>

\* line 52: compare_exchange_weak(z, y) fails spuriously although x = z
CasSpurious(t) ==
    /\ pc[t] = "cas"
    /\ x = z[t]
    /\ z' = [z EXCEPT ![t] = x]
    /\ events' = events \cup {"spurious"}
    /\ pc' = [pc EXCEPT ![t] = "test"]
    /\ UNCHANGED <<initial, x, y, held, before, nswaps, swapsAtLoad>>

OthersOfAtom == UNCHANGED <<shufVars, extVars, logVars, asVars, psVars>>

AtomNext ==
    \/ \E t \in Threads : Load(t) /\ OthersOfAtom
    \/ \E t \in Threads : Test(t) /\ OthersOfAtom
    \/ \E t \in Threads : CasSuccess(t) /\ OthersOfAtom
    \/ \E t \in Threads : CasFail(t) /\ OthersOfAtom
    \/ \E t \in Threads : CasSpurious(t) /\ OthersOfAtom

AtomicInit == AtomInit /\ ShufIdle /\ ExtIdle /\ LogIdle /\ AsIdle /\ PsIdle

Spec == AtomicInit /\ [][AtomNext]_vars

\* A caller's step, whichever it is.
Step(t) ==
    /\ \/ Load(t)
       \/ Test(t)
       \/ CasSuccess(t)
       \/ CasFail(t)
       \/ CasSpurious(t)
    /\ OthersOfAtom

\* Every caller is scheduled again and again (weak fairness of its steps), and
\* a weak CAS whose expected value matches does not fail spuriously for ever
\* (strong fairness of the successful CAS).
\* The callers run the same code, so a behaviour with the candidates permuted
\* among them is the same behaviour with the callers renamed: the liveness
\* check lists the candidates in non-decreasing order of caller.
LiveInit ==
    /\ AtomicInit
    /\ \A t, u \in Threads : t <= u => y[t] <= y[u]

LiveSpec ==
    /\ LiveInit
    /\ [][AtomNext]_vars
    /\ \A t \in Threads : WF_vars(Step(t)) /\ SF_vars(CasSuccess(t) /\ OthersOfAtom)

AllDone == \A t \in Threads : pc[t] = "done"

Candidates == {y[t] : t \in Threads}

\* C1: once every caller of atomic_max has returned, the shared scalar equals
\* the maximum of its initial value and all the candidates passed (the maximum
\* of the candidates when the initial value does not exceed it).
AtomicMaxFinalIsMaximum ==
    AllDone => /\ x = Max({initial} \cup Candidates)
               /\ (initial <= Max(Candidates) => x = Max(Candidates))

\* C1 witness: all callers returned after racing: two stores happened, a CAS
\* failed by contention, and some caller's candidate lost.
AtomicMaxFinalWitness ==
    /\ AllDone
    /\ nswaps >= 2
    /\ "contention" \in events
    /\ initial < x
    /\ \E t \in Threads : y[t] < x

\* C2: when a call atomic_max(shared, candidate) has returned, the shared
\* scalar is at least the candidate and at least every value it held before
\* the call began, whatever the other callers do.
AtomicMaxPostcondition ==
    \A t \in Threads :
        pc[t] = "done" => /\ x >= y[t]
                          /\ \A v \in before[t] : x >= v

\* C2 witness: a caller whose call began after the scalar had already changed
\* has returned while another caller is still inside its loop.
AtomicMaxPostconditionWitness ==
    \E t, u \in Threads :
        /\ pc[t] = "done"
        /\ Cardinality(before[t]) >= 2
        /\ pc[u] = "cas"
        /\ x > y[t]

\* C7: the shared scalar never decreases in any step of any interleaving, and
\* every value it takes is its initial value or some caller's candidate.
AtomicMaxMonotonic ==
    /\ [][x' >= x]_vars
    /\ [](x \in {initial} \cup Candidates)

\* C7 witness: the scalar has been raised twice, with both a contended and a
\* spurious CAS failure on the way.
AtomicMaxMonotonicWitness ==
    /\ nswaps >= 2
    /\ events = {"contention", "spurious"}
    /\ x > initial

\* C9: under fair scheduling every caller returns; a caller leaves the CAS to
\* return only when its own store took place (a failed CAS retries); and when
\* a CAS fails by contention, another CAS has succeeded since this caller
\* last loaded the scalar.
AtomicMaxTerminates ==
    /\ <>AllDone
    /\ [][\A t \in Threads :
            /\ (pc[t] = "cas" /\ pc'[t] = "done") => (x' = y[t] /\ nswaps' = nswaps + 1)
            /\ (pc[t] = "cas" /\ pc'[t] = "test") => z'[t] = x
            /\ (pc[t] = "cas" /\ pc'[t] = "test" /\ x # z[t]) => nswaps > swapsAtLoad[t]]_vars

\* C9 witness: every caller has returned although CAS failed both spuriously
\* and by contention.
AtomicMaxTerminatesWitness ==
    /\ AllDone
    /\ events = {"contention", "spurious"}

(***************************************************************************)
(* shuffle_primitives (lines 55-62)                                        *)
(*                                                                         *)
(*   auto primitives_copy = std::make_unique<Primitive[]>(primitive_count);*)
(*   std::move(primitives, primitives + primitive_count,                   *)
(*             primitives_copy.get());                                     *)
(*   for (size_t i = 0; i < primitive_count; ++i)                          *)
(*       primitives[i] = std::move(primitives_copy[indices[i]]);           *)
(*                                                                         *)
(* Arrays are functions over 0..primitive_count-1, as in the source.  A    *)
(* primitive is a record: a live one carries its identity, a moved-from or *)
(* value-initialized one does not.                                         *)
(***************************************************************************)
MaxCount     == 3
NPrimitives  == 3

Range(n) == 0..(n - 1)

LivePrimitives == [state : {"live"}, id : 1..NPrimitives]
MovedFrom      == [state |-> "moved", id |-> 0]
ValueInit      == [state |-> "default", id |-> 0]

\* The bijections over [0, n): the permutations the caller may pass.
Bijections(n) == {f \in [Range(n) -> Range(n)] : \A i, j \in Range(n) : f[i] = f[j] => i = j}

ShufInit ==
    /\ primitive_count \in 0..MaxCount
    /\ primitives \in [Range(primitive_count) -> LivePrimitives]
    /\ indices \in Bijections(primitive_count)
    /\ primitives_copy = <<>>
    /\ si = 0
    /\ spc = "call"
    /\ original = primitives

\* line 58: the staging array, value-initialized by make_unique
ShuffleAlloc ==
    /\ spc = "call"
    /\ primitives_copy' = [i \in Range(primitive_count) |-> ValueInit]
    /\ spc' = "moveout"
    /\ UNCHANGED <<primitives, indices, primitive_count, si, original>>

\* line 59: std::move of the whole array into the staging array
ShuffleMoveOut ==
    /\ spc = "moveout"
    /\ primitives_copy' = [i \in Range(primitive_count) |-> primitives[i]]
    /\ primitives' = [i \in Range(primitive_count) |-> MovedFrom]
    /\ si' = 0
    /\ spc' = "loop"
    /\ UNCHANGED <<indices, primitive_count, original>>

\* mutant: the permutation applied the other way round,
\* primitives[indices[i]] = std::move(primitives_copy[i])
ShuffleLoopInverse ==
    /\ spc = "loop"
    /\ si < primitive_count
    /\ primitives' = [primitives EXCEPT ![indices[si]] = primitives_copy[si]]
    /\ primitives_copy' = [primitives_copy EXCEPT ![si] = MovedFrom]
    /\ si' = si + 1
    /\ UNCHANGED <<indices, primitive_count, spc, original>>

\* lines 60-61: one iteration, primitives[i] = std::move(primitives_copy[indices[i]])
ShuffleLoop ==
    /\ spc = "loop"
    /\ si < primitive_count
    /\ primitives' = [primitives EXCEPT ![si] = primitives_copy[indices[si]]]
    /\ primitives_copy' = [primitives_copy EXCEPT ![indices[si]] = MovedFrom]
    /\ si' = si + 1
    /\ UNCHANGED <<indices, primitive_count, spc, original>>

\* lines 60, 62: the loop ends, the staging array is destroyed, the call returns
ShuffleReturn ==
    /\ spc = "loop"
    /\ ~(si < primitive_count)
    /\ primitives_copy' = <<>>
    /\ spc' = "done"
    /\ UNCHANGED <<primitives, indices, primitive_count, si, original>>

OthersOfShuffle == UNCHANGED <<atomVars, extVars, logVars, asVars, psVars>>

ShuffleNext ==
    \/ ShuffleAlloc /\ OthersOfShuffle
    \/ ShuffleMoveOut /\ OthersOfShuffle
    \/ ShuffleLoop /\ OthersOfShuffle
    \/ ShuffleReturn /\ OthersOfShuffle

ShuffleInit == ShufInit /\ AtomIdle /\ ExtIdle /\ LogIdle /\ AsIdle /\ PsIdle

ShuffleSpec == ShuffleInit /\ [][ShuffleNext]_vars

\* How many slots of array a hold the primitive p.
Occurrences(a, p) == Cardinality({i \in DOMAIN a : a[i] = p})

\* C3: after shuffle_primitives returns, for every count (0 and 1 included)
\* and every bijection indices, primitives[i] is the element that was at
\* primitives[indices[i]] before the call; the array holds exactly the
\* original elements, each as often as before.
ShufflePlacesByIndices ==
    spc = "done" =>
        /\ DOMAIN primitives = Range(primitive_count)
        /\ \A i \in Range(primitive_count) : primitives[i] = original[indices[i]]
        /\ \A p \in LivePrimitives \cup {MovedFrom, ValueInit} :
               Occurrences(primitives, p) = Occurrences(original, p)

\* C3 witness: the call has returned for three distinct elements and a
\* permutation that is not its own inverse (a 3-cycle).
ShuffleWitness ==
    /\ spc = "done"
    /\ primitive_count = 3
    /\ \A i, j \in Range(primitive_count) : original[i] = original[j] => i = j
    /\ \E i \in Range(primitive_count) : indices[indices[i]] # i
    /\ primitives # original

(***************************************************************************)
(* compute_bounding_boxes_and_centers (lines 64-75)                        *)
(*                                                                         *)
(*   auto bboxes  = std::make_unique<BoundingBox<Scalar>[]>(count);        *)
(*   auto centers = std::make_unique<Vector3<Scalar>[]>(count);            *)
(*   #pragma omp parallel for                                              *)
(*   for (size_t i = 0; i < count; ++i) {                                  *)
(*       bboxes[i]  = primitives[i].bounding_box();                        *)
(*       centers[i] = primitives[i].center();                              *)
(*   }                                                                     *)
(*   return std::make_pair(std::move(bboxes), std::move(centers));         *)
(*                                                                         *)
(* The parallel loop hands every iteration to exactly one worker of the    *)
(* team, in any order; a worker runs the two statements of its iteration   *)
(* one after the other, interleaved with the other workers' statements.    *)
(* With one worker (or OpenMP disabled) the loop is the sequential one.    *)
(***************************************************************************)
NWorkers    == 2
MaxExtCount == 3

Workers == 1..NWorkers

\* The Primitive type is the caller's.  Here a primitive is a segment with
\* end points a and b on one axis (given in either order).
Segments == {[a |-> 0, b |-> 2], [a |-> 3, b |-> 1], [a |-> 2, b |-> 2]}

\* Primitive::bounding_box()
bounding_box(p) == [min |-> IF p.a <= p.b THEN p.a ELSE p.b,
                    max |-> IF p.a <= p.b THEN p.b ELSE p.a]

\* Primitive::center()
center(p) == (p.a + p.b) \div 2

\* What make_unique leaves in a fresh element.
FreshBox    == [min |-> 0, max |-> 0]
FreshCenter == 0

ExtInit ==
    /\ ecount \in 0..MaxExtCount
    /\ eprims \in [Range(ecount) -> Segments]
    /\ bboxes = <<>>
    /\ centers = <<>>
    /\ todo = {}
    /\ wpc = [w \in Workers |-> "idle"]
    /\ wi = [w \in Workers |-> 0]
    /\ epc = "call"
    /\ boxWrites = [i \in Range(ecount) |-> 0]
    /\ centerWrites = [i \in Range(ecount) |-> 0]
    /\ eprims0 = eprims
    /\ accesses = {}
    /\ owner = [i \in Range(ecount) |-> 0]

Access(i, op, array, slot) == [iter |-> i, op |-> op, array |-> array, slot |-> slot]

\* lines 67-68: the two output arrays; line 69: the team is formed
ExtractAlloc ==
    /\ epc = "call"
    /\ bboxes' = [i \in Range(ecount) |-> FreshBox]
    /\ centers' = [i \in Range(ecount) |-> FreshCenter]
    /\ todo' = Range(ecount)
    /\ epc' = "loop"
    /\ UNCHANGED <<eprims, ecount, wpc, wi, boxWrites, centerWrites, eprims0,
                   accesses, owner>>

\* lines 69-70: worker w is handed iteration i
StartIteration(w, i) ==
    /\ epc = "loop"
    /\ wpc[w] = "idle"
    /\ i \in todo
    /\ todo' = todo \ {i}
    /\ wi' = [wi EXCEPT ![w] = i]
    /\ wpc' = [wpc EXCEPT ![w] = "bbox"]
    /\ owner' = [owner EXCEPT ![i] = w]
    /\ UNCHANGED <<eprims, ecount, bboxes, centers, epc, boxWrites, centerWrites,
                   eprims0, accesses>>

\* mutant: an off-by-one read, bboxes[i] = primitives[(i + 1) % count].bounding_box()
WriteBoxNeighbour(w) ==
    /\ epc = "loop"
    /\ wpc[w] = "bbox"
    /\ LET i == wi[w]
           j == (wi[w] + 1) % ecount
       IN /\ bboxes' = [bboxes EXCEPT ![i] = bounding_box(eprims[j])]
          /\ boxWrites' = [boxWrites EXCEPT ![i] = @ + 1]
          /\ accesses' = accesses \cup {Access(i, "read", "primitives", j),
                                        Access(i, "write", "bboxes", i)}
    /\ wpc' = [wpc EXCEPT ![w] = "center"]
    /\ UNCHANGED <<eprims, ecount, centers, todo, wi, epc, centerWrites, eprims0, owner>>

\* line 71: bboxes[i] = primitives[i].bounding_box();
WriteBox(w) ==
    /\ epc = "loop"
    /\ wpc[w] = "bbox"
    /\ LET i == wi[w]
       IN /\ bboxes' = [bboxes EXCEPT ![i] = bounding_box(eprims[i])]
          /\ boxWrites' = [boxWrites EXCEPT ![i] = @ + 1]
          /\ accesses' = accesses \cup {Access(i, "read", "primitives", i),
                                        Access(i, "write", "bboxes", i)}
    /\ wpc' = [wpc EXCEPT ![w] = "center"]
    /\ UNCHANGED <<eprims, ecount, centers, todo, wi, epc, centerWrites, eprims0, owner>>

\* mutant: every iteration writes its center to the first slot, centers[0] = ...
WriteCenterShared(w) ==
    /\ epc = "loop"
    /\ wpc[w] = "center"
    /\ LET i == wi[w]
       IN /\ centers' = [centers EXCEPT ![0] = center(eprims[i])]
          /\ centerWrites' = [centerWrites EXCEPT ![0] = @ + 1]
          /\ accesses' = accesses \cup {Access(i, "read", "primitives", i),
                                        Access(i, "write", "centers", 0)}
    /\ wpc' = [wpc EXCEPT ![w] = "idle"]
    /\ UNCHANGED <<eprims, ecount, bboxes, todo, wi, epc, boxWrites, eprims0, owner>>

\* line 72: centers[i] = primitives[i].center();
WriteCenter(w) ==
    /\ epc = "loop"
    /\ wpc[w] = "center"
    /\ LET i == wi[w]
       IN /\ centers' = [centers EXCEPT ![i] = center(eprims[i])]
          /\ centerWrites' = [centerWrites EXCEPT ![i] = @ + 1]
          /\ accesses' = accesses \cup {Access(i, "read", "primitives", i),
                                        Access(i, "write", "centers", i)}
    /\ wpc' = [wpc EXCEPT ![w] = "idle"]
    /\ UNCHANGED <<eprims, ecount, bboxes, todo, wi, epc, boxWrites, eprims0, owner>>

\* lines 73-74: the implicit barrier at the end of the loop, then the return
ExtractReturn ==
    /\ epc = "loop"
    /\ todo = {}
    /\ \A w \in Workers : wpc[w] = "idle"
    /\ epc' = "returned"
    /\ UNCHANGED <<eprims, ecount, bboxes, centers, todo, wpc, wi, boxWrites,
                   centerWrites, eprims0, accesses, owner>>

OthersOfExtract == UNCHANGED <<atomVars, shufVars, logVars, asVars, psVars>>

ExtractNext ==
    \/ ExtractAlloc /\ OthersOfExtract
    \/ \E w \in Workers : \E i \in Range(ecount) : StartIteration(w, i) /\ OthersOfExtract
    \/ \E w \in Workers : WriteBox(w) /\ OthersOfExtract
    \/ \E w \in Workers : WriteCenter(w) /\ OthersOfExtract
    \/ ExtractReturn /\ OthersOfExtract

ExtractInit == ExtInit /\ AtomIdle /\ ShufIdle /\ LogIdle /\ AsIdle /\ PsIdle

ExtractSpec == ExtractInit /\ [][ExtractNext]_vars

\* C5: the call returns two arrays of length count with
\* boxes[i] = bounding_box(primitives[i]) and centers[i] = center(primitives[i])
\* for every i, whichever workers ran which iterations and in whatever order
\* their statements interleaved (one worker running them all included).
ExtractResultIsPointwise ==
    epc = "returned" =>
        /\ DOMAIN bboxes = Range(ecount)
        /\ DOMAIN centers = Range(ecount)
        /\ \A i \in Range(ecount) : /\ bboxes[i] = bounding_box(eprims0[i])
                                     /\ centers[i] = center(eprims0[i])

\* C5 witness: the call has returned for three primitives, not all alike,
\* whose iterations were split between two workers.
ExtractResultWitness ==
    /\ epc = "returned"
    /\ ecount = 3
    /\ \E i, j \in Range(ecount) : owner[i] # owner[j]
    /\ \E i, j \in Range(ecount) : bboxes[i] # bboxes[j] /\ centers[i] # centers[j]

\* Two accesses conflict when different iterations touch the same slot of
\* the same array and one of them writes.
Conflict(a, b) ==
    /\ a.iter # b.iter
    /\ a.array = b.array
    /\ a.slot = b.slot
    /\ a.op = "write" \/ b.op = "write"

\* C10: iteration i reads only primitives[i] and writes only bboxes[i] and
\* centers[i]; no two iterations conflict on a slot; no output slot is
\* written twice and at the return each has been written exactly once; the
\* caller's primitives are unchanged.
ExtractIterationsDisjoint ==
    /\ \A a \in accesses :
           /\ a.slot = a.iter
           /\ a.op = "read" => a.array = "primitives"
           /\ a.op = "write" => a.array \in {"bboxes", "centers"}
    /\ \A a, b \in accesses : ~Conflict(a, b)
    /\ \A w, v \in Workers : (w # v /\ wpc[w] # "idle" /\ wpc[v] # "idle") => wi[w] # wi[v]
    /\ \A i \in Range(ecount) : boxWrites[i] <= 1 /\ centerWrites[i] <= 1
    /\ epc = "returned" => \A i \in Range(ecount) : boxWrites[i] = 1 /\ centerWrites[i] = 1
    /\ eprims = eprims0

\* C10 witness: two workers are inside their iterations at the same time, one
\* about to write its box and the other its center, after a third iteration
\* has been completed.
ExtractDisjointWitness ==
    /\ epc = "loop"
    /\ \E w, v \in Workers : wpc[w] = "bbox" /\ wpc[v] = "center"
    /\ \E i \in Range(ecount) : boxWrites[i] = 1 /\ centerWrites[i] = 1

(***************************************************************************)
(* RoundedUpLog2 (lines 85-97)                                             *)
(*                                                                         *)
(*   template <size_t P, size_t I = 0, bool Found = P == 0>                *)
(*   struct RoundedUpLog2 {};                                              *)
(*   struct RoundedUpLog2<P, I, false> {                                   *)
(*       value = RoundedUpLog2<P, I + 1, (1 << (I + 1)) >= P>::value; };   *)
(*   struct RoundedUpLog2<P, I, true> { value = I; };                      *)
(*                                                                         *)
(* The state is the instantiation the compiler is evaluating.  The literal *)
(* 1 is an int, so the shift is an int shift: it is defined while the      *)
(* result fits in IntBits - 1 value bits, which holds for every P the      *)
(* model draws.                                                            *)
(***************************************************************************)
MaxP    == 40
IntBits == 32

\* 1 << n in int arithmetic, for the shift counts that do not overflow
ShiftLeftOne(n) == 2 ^ n

LogInit ==
    /\ P \in 0..MaxP
    /\ I = 0
    /\ Found = (P = 0)
    /\ value = -1

\* line 91: the Found = false specialization instantiates the next one
LogRecurse ==
    /\ value = -1
    /\ Found = FALSE
    /\ I + 1 < IntBits - 1
    /\ I' = I + 1
    /\ Found' = (ShiftLeftOne(I + 1) >= P)
    /\ UNCHANGED <<P, value>>

\* line 96: the Found = true specialization gives value = I
LogFound ==
    /\ value = -1
    /\ Found = TRUE
    /\ value' = I
    /\ UNCHANGED <<P, I, Found>>

OthersOfLog == UNCHANGED <<atomVars, shufVars, extVars, asVars, psVars>>

LogNext ==
    \/ LogRecurse /\ OthersOfLog
    \/ LogFound /\ OthersOfLog

Log2Init == LogInit /\ AtomIdle /\ ShufIdle /\ ExtIdle /\ AsIdle /\ PsIdle

Log2Spec == Log2Init /\ [][LogNext]_vars

\* The smallest k with 2^k >= p, for p >= 1.
CeilingLog2(p) == CHOOSE k \in 0..IntBits : 2 ^ k >= p /\ \A j \in 0..(k - 1) : 2 ^ j < p

\* C4: for every P > 0, RoundedUpLog2<P>::value is the smallest k with
\* 2^k >= P (0 for P = 1, 1 for P = 2, 2 for P = 3 and 4, 3 for P = 5).
RoundedUpLog2IsCeiling ==
    (value # -1 /\ P > 0) => value = CeilingLog2(P)

(***************************************************************************)
(* as<To>(from) (lines 15-21)                                              *)
(*                                                                         *)
(*   To to;                                                                *)
(*   std::memcpy(&to, &from, sizeof(from));                                *)
(*   return to;                                                            *)
(*                                                                         *)
(* A value carries its type.  A float or double is its IEEE-754 fields     *)
(* (sign, biased exponent, mantissa, as bits, most significant first); an  *)
(* unsigned integer is its bits, most significant first.  The object       *)
(* representation of a value is the sequence of its bits, most significant *)
(* first; memory is little-endian, so the first byte in memory is the last *)
(* eight bits of that sequence.                                            *)
(***************************************************************************)
CharBit == 8

Types == {"float", "double", "uint32_t", "uint64_t"}

SizeOf(T) == IF T \in {"float", "uint32_t"} THEN 4 ELSE 8

BitsOf(T) == CharBit * SizeOf(T)

IsFloating(T) == T \in {"float", "double"}

\* The width of the exponent field of a binary32 and of a binary64.
ExpBits(T) == IF T = "float" THEN 8 ELSE 11

MantBits(T) == BitsOf(T) - 1 - ExpBits(T)

Fill(n, b) == [k \in 1..n |-> b]

\* The bits of a value's object representation.
ObjRep(v) == IF IsFloating(v.type) THEN <<v.sign>> \o v.exp \o v.mant ELSE v.bits

\* The value of type T whose object representation is bits.
ValueOf(T, bits) ==
    IF IsFloating(T)
    THEN [type |-> T,
          sign |-> bits[1],
          exp  |-> SubSeq(bits, 2, 1 + ExpBits(T)),
          mant |-> SubSeq(bits, 2 + ExpBits(T), BitsOf(T))]
    ELSE [type |-> T, bits |-> bits]

\* What an uninitialized object of n bits may hold (a sample of the
\* indeterminate values: all bits clear, all bits set).
Indeterminate(n) == {Fill(n, 0), Fill(n, 1)}

\* std::memcpy(&dst, &src, sizeof(src)): the bits of dst afterwards.  The
\* sizeof(src) bytes at the lowest addresses are the low-order bits.  When src
\* is the larger, dst receives its low-order part and the rest is written
\* past the end of dst.
Memcpy(dst, src) ==
    IF Len(src) <= Len(dst)
    THEN SubSeq(dst, 1, Len(dst) - Len(src)) \o src
    ELSE SubSeq(src, Len(src) - Len(dst) + 1, Len(src))

\* Whether memcpy of src into dst writes past the end of dst.
Overruns(dst, src) == Len(src) > Len(dst)

\* Sample bit patterns of a field of n bits.
FieldSamples(n) ==
    {Fill(n, 0), Fill(n, 1),
     [k \in 1..n |-> IF k = 1 THEN 1 ELSE 0],
     [k \in 1..n |-> IF k = n THEN 1 ELSE 0],
     [k \in 1..n |-> IF k = 1 THEN 0 ELSE 1],
     [k \in 1..n |-> IF k = n THEN 0 ELSE 1]}

\* Sample floats and doubles: zeros, denormals, normals, the largest finite
\* values, infinities and NaNs, of both signs.
Floats(T) == [type : {T}, sign : {0, 1}, exp : FieldSamples(ExpBits(T)),
              mant : FieldSamples(MantBits(T)) \ {[k \in 1..MantBits(T) |-> IF k = 1 THEN 0 ELSE 1]}]

Unsigneds(T) == [type : {T}, bits : FieldSamples(BitsOf(T))]

AsArguments == Floats("float") \cup Floats("double")
                 \cup Unsigneds("uint32_t") \cup Unsigneds("uint64_t")

AsInit ==
    /\ asTo \in Types
    /\ asFrom \in AsArguments
    /\ asStorage = <<>>
    /\ asOverrun = FALSE
    /\ asResult = <<>>
    /\ aspc = "call"

\* lines 18-19: `to` is declared uninitialized, then memcpy copies
\* sizeof(from) bytes into it, whatever sizeof(To) is
AsCopy ==
    /\ aspc = "call"
    /\ \E junk \in Indeterminate(BitsOf(asTo)) :
           /\ asStorage' = Memcpy(junk, ObjRep(asFrom))
           /\ asOverrun' = Overruns(junk, ObjRep(asFrom))
    /\ aspc' = "copied"
    /\ UNCHANGED <<asTo, asFrom, asResult>>

\* line 20: return to;
AsReturn ==
    /\ aspc = "copied"
    /\ asResult' = ValueOf(asTo, asStorage)
    /\ aspc' = "returned"
    /\ UNCHANGED <<asTo, asFrom, asStorage, asOverrun>>

OthersOfAs == UNCHANGED <<atomVars, shufVars, extVars, logVars, psVars>>

AsNext ==
    \/ AsCopy /\ OthersOfAs
    \/ AsReturn /\ OthersOfAs

AsSpecInit == AsInit /\ AtomIdle /\ ShufIdle /\ ExtIdle /\ LogIdle /\ PsIdle

AsSpec == AsSpecInit /\ [][AsNext]_vars

\* C8: as<To>(from) is usable only when To and From have equal storage size:
\* a call with sizeof(To) # sizeof(From) is rejected and never reaches the
\* byte copy of sizeof(From) bytes into To.
AsRejectsSizeMismatch ==
    aspc \in {"copied", "returned"} => SizeOf(asTo) = SizeOf(asFrom.type)

(***************************************************************************)
(* product_sign (lines 23-31)                                              *)
(*                                                                         *)
(*   as<float>(as<uint32_t>(x) ^ (as<uint32_t>(y) & UINT32_C(0x80000000))) *)
(*   as<double>(as<uint64_t>(x) ^                                          *)
(*              (as<uint64_t>(y) & UINT64_C(0x8000000000000000)))          *)
(***************************************************************************)

\* as<To>(from) as an expression: what AsCopy and AsReturn compute.  The two
\* calls product_sign makes are between types of equal size, where the
\* result does not depend on what `to` held before the copy.
as(To, from) ==
    ValueOf(To, Memcpy(CHOOSE junk \in Indeterminate(BitsOf(To)) : TRUE, ObjRep(from)))

\* operator^ and operator& of two unsigned integers of one width
BitXor(u, v) == [type |-> u.type, bits |-> [k \in 1..Len(u.bits) |-> (u.bits[k] + v.bits[k]) % 2]]

BitAnd(u, v) == [type |-> u.type, bits |-> [k \in 1..Len(u.bits) |-> u.bits[k] * v.bits[k]]]

\* UINT32_C(0x80000000)
SignMask32 == [type |-> "uint32_t", bits |-> <<1>> \o Fill(31, 0)]

\* UINT64_C(0x8000000000000000)
SignMask64 == [type |-> "uint64_t", bits |-> <<1>> \o Fill(63, 0)]

\* mutant: the mask forgotten, as<uint32_t>(x) ^ as<uint32_t>(y)
product_sign_float_unmasked(fx, fy) ==
    as("float", BitXor(as("uint32_t", fx), as("uint32_t", fy)))

\* lines 24-26: the float overload
product_sign_float(fx, fy) ==
    as("float", BitXor(as("uint32_t", fx), BitAnd(as("uint32_t", fy), SignMask32)))

\* lines 29-31: the double overload
product_sign_double(fx, fy) ==
    as("double", BitXor(as("uint64_t", fx), BitAnd(as("uint64_t", fy), SignMask64)))

\* overload resolution on the arguments' type
product_sign(fx, fy) ==
    IF fx.type = "float" THEN product_sign_float(fx, fy) ELSE product_sign_double(fx, fy)

PsInit ==
    /\ \E T \in {"float", "double"} : psX \in Floats(T) /\ psY \in Floats(T)
    /\ psResult = <<>>
    /\ pspc = "call"

\* lines 24-26, 29-31: the call
PsCall ==
    /\ pspc = "call"
    /\ psResult' = product_sign(psX, psY)
    /\ pspc' = "returned"
    /\ UNCHANGED <<psX, psY>>

OthersOfPs == UNCHANGED <<atomVars, shufVars, extVars, logVars, asVars>>

PsNext == PsCall /\ OthersOfPs

ProductSignInit == PsInit /\ AtomIdle /\ ShufIdle /\ ExtIdle /\ LogIdle /\ AsIdle

ProductSignSpec == ProductSignInit /\ [][PsNext]_vars

\* A float or double is finite when its exponent field is not all ones.
IsFinite(v) == \E k \in 1..Len(v.exp) : v.exp[k] = 0

\* The sign bit of the IEEE-754 product v * w of two finite values: set
\* exactly when the operands' signs differ (also for a zero, an underflowed
\* or an overflowed product).
SignOfProduct(v, w) == IF v.sign = w.sign THEN 0 ELSE 1

\* copysign(v, s): v with its sign bit replaced by s
copysign(v, s) == [v EXCEPT !.sign = s]

\* C6: for all finite x and y, signed zeros included, product_sign(x, y) is
\* bit for bit copysign(x, x * y): exponent and mantissa are those of x, the
\* sign bit is sign(x) XOR sign(y), at the operand's width (32 bits for
\* float, 64 for double).
ProductSignIsCopysign ==
    (pspc = "returned" /\ IsFinite(psX) /\ IsFinite(psY)) =>
        /\ psResult = copysign(psX, SignOfProduct(psX, psY))
        /\ psResult.exp = psX.exp /\ psResult.mant = psX.mant
        /\ psResult.sign = (psX.sign + psY.sign) % 2
        /\ Len(ObjRep(psResult)) = (IF psX.type = "float" THEN 32 ELSE 64)

\* C6 witness: the double overload has returned +0 for x = -0 and a finite
\* negative y whose low mantissa bits are set.
ProductSignWitness ==
    /\ pspc = "returned"
    /\ psX.type = "double"
    /\ psX.sign = 1 /\ psX.exp = Fill(11, 0) /\ psX.mant = Fill(52, 0)
    /\ psY.sign = 1 /\ IsFinite(psY) /\ psY.mant = Fill(52, 1)
    /\ psResult.sign = 0
====
